---- MODULE Spec2Model ----
(***************************************************************************)
(* Model of rustlings/exercises/advanced_errors/advanced_errs2.rs: the     *)
(* parser Climate::from_str, its error type ParseClimateError (From,       *)
(* Display, Error::source) and the driver main.                            *)
(*                                                                         *)
(* A string is a sequence of one-character strings.  The two library       *)
(* parsers the code calls, str::parse::<u32> and str::parse::<f32>, are    *)
(* modelled by what they do on such a sequence.                            *)
(***************************************************************************)
EXTENDS Integers, Sequences, FiniteSets, TLC

VARIABLES caller, s, res, msg, src, pc, stdout, ret

vars == <<caller, s, res, msg, src, pc, stdout, ret>>

----------------------------------------------------------------------------
(* Bounds and inputs *)

\* Longest input enumerated exhaustively over Alphabet.
MaxLen == 6

\* One character of each class the parser tells apart: the separator, a
\* letter, a digit, the two signs, the decimal point and whitespace.
Alphabet == {",", "a", "1", "+", "-", ".", " "}

Digits == {"0", "1", "2", "3", "4", "5", "6", "7", "8", "9"}

\* The string literals of the source file (main and the tests).
Lit_HongKong == <<"H", "o", "n", "g", " ", "K", "o", "n", "g", ",", "1", "9", "9", "9", ",", "2", "5", ".", "7">>
Lit_Empty == <<>>
Lit_Boston == <<"B", "o", "s", "t", "o", "n", ",", "1", "9", "9", "1">>
Lit_Paris == <<"P", "a", "r", "i", "s", ",", "1", "9", "2", "0", ",", "1", "7", ".", "2", ",", "e", "x", "t", "r", "a">>
Lit_NoCity == <<",", "1", "9", "9", "7", ",", "2", "0", ".", "5">>
Lit_Barcelona == <<"B", "a", "r", "c", "e", "l", "o", "n", "a", ",", "-", "2", "5", ",", "2", "2", ".", "3">>
Lit_Beijing == <<"B", "e", "i", "j", "i", "n", "g", ",", "f", "o", "o", ",", "1", "5", ".", "0">>
Lit_Manila == <<"M", "a", "n", "i", "l", "a", ",", "2", "0", "0", "1", ",", "b", "a", "r">>
Lit_Munich == <<"M", "u", "n", "i", "c", "h", ",", "2", "0", "1", "5", ",", "2", "3", ".", "1">>
\* The two non-ASCII characters of the literal are the tokens "A~" and "L~".
Lit_SaoPaulo == <<"S", "A~", "L~", "o", " ", "P", "a", "u", "l", "o", ",", "-", "2", "1", ",", "2", "8", ".", "5">>

TestLiterals ==
    { Lit_Empty, Lit_Boston, Lit_Paris, Lit_NoCity, Lit_Barcelona, Lit_Beijing,
      Lit_Manila, Lit_Munich, Lit_SaoPaulo, Lit_HongKong }

\* Inputs longer than MaxLen that reach the corners of the two numeric
\* parsers: the u32 limit, the optional '+', exponents, inf/nan, whitespace.
EdgeInputs ==
    { <<"a", ",", "4", "2", "9", "4", "9", "6", "7", "2", "9", "5", ",", "1">>,
      <<"a", ",", "4", "2", "9", "4", "9", "6", "7", "2", "9", "6", ",", "1">>,
      <<"a", ",", "+", "4", "2", "9", "4", "9", "6", "7", "2", "9", "5", ",", "1", "e", "5">>,
      <<"a", ",", "0", "0", "0", "0", "0", "0", "0", "0", "0", "0", "1", ",", "i", "n", "f">>,
      <<"a", ",", "9", "9", "9", "9", "9", "9", "9", "9", "9", "9", "9", ",", "x">>,
      <<"a", ",", "4", "2", "9", "4", "9", "6", "7", "2", "9", "5", "a", ",", "1">>,
      <<"a", ",", "4", "2", "9", "4", "9", "6", "7", "2", "9", "5", "0", ",", "1">>,
      <<"a", ",", "+", "1", ",", "1">>,
      <<"a", ",", "+", ",", "1">>,
      <<"a", ",", "1", ",", "-", "1", ".", "5", "E", "-", "3">>,
      <<"a", ",", "1", ",", "N", "a", "N">>,
      <<"a", ",", "1", ",", "-", "I", "n", "f", "i", "n", "i", "t", "y">>,
      <<"a", ",", "1", ",", "i", "n", "f", "i", "n", "i", "t">>,
      <<"a", ",", "1", ",", "1", "e">>,
      <<"a", ",", "1", ",", ".", "e", "1">>,
      <<"a", ",", "1", ",", "1", ".">>,
      <<"a", ",", "1", ",", "+", ".", "5">>,
      <<"a", ",", "1", ",", "1", "e", "7", "0", "0", "0", "0">>,
      <<"a", ",", "1", ",", "1", "e", "-", "7", "0", "0", "0", "0">>,
      <<"a", ",", "1", ",", "1", "e", "5", "x">>,
      <<"a", ",", "1", ",", "1", ".", "2", ".", "3">>,
      <<" ", "a", " ", ",", "1", ",", "1">>,
      <<"a", ",", " ", "1", ",", "1">>,
      <<"a", ",", "1", ",", "1", " ">>,
      <<"a", ",", "6", "5", "5", "3", "6", ",", "0", ".", "5", "0">>,
      <<"a", ",", "1", "0", "0", "0", "0", "0", "0", "0", "0", "0", ",", "1">> }

\* Every string over Alphabet of length at most MaxLen, and the inputs above.
Inputs ==
    UNION { [1..n -> Alphabet] : n \in 0..MaxLen } \cup TestLiterals \cup EdgeInputs

----------------------------------------------------------------------------
(* Values *)

None == [tag |-> "None"]
Some(x) == [tag |-> "Some", val |-> x]
Uncalled == [tag |-> "Uncalled"]

Ok(x) == [tag |-> "Ok", val |-> x]
Err(e) == [tag |-> "Err", err |-> e]

\* std::num::ParseIntError / ParseFloatError: a kind, and the type it is of.
ParseIntError(k) == [type |-> "ParseIntError", kind |-> k]
ParseFloatError(k) == [type |-> "ParseFloatError", kind |-> k]

IntErrorKinds == {"Empty", "InvalidDigit", "PosOverflow", "NegOverflow", "Zero"}
FloatErrorKinds == {"Empty", "Invalid"}

\* enum ParseClimateError
Empty == [variant |-> "Empty"]
BadLen == [variant |-> "BadLen"]
NoCity == [variant |-> "NoCity"]
ParseInt(e) == [variant |-> "ParseInt", inner |-> e]
ParseFloat(e) == [variant |-> "ParseFloat", inner |-> e]

\* Every value of the enum.
AllErrors ==
    {Empty, BadLen, NoCity}
        \cup { ParseInt(ParseIntError(k)) : k \in IntErrorKinds }
        \cup { ParseFloat(ParseFloatError(k)) : k \in FloatErrorKinds }

\* struct Climate
Climate(city, year, temp) == [city |-> city, year |-> year, temp |-> temp]

----------------------------------------------------------------------------
(* str::parse::<u32>, called at line 86 *)

\* A u32 is held as two 16-bit limbs, hi * LimbBase + lo, so that the
\* checked arithmetic of the parser keeps its 32-bit width.
LimbBase == 65536

U32(hi, lo) == [hi |-> hi, lo |-> lo]

DigitVal(c) ==
    CASE c = "0" -> 0 [] c = "1" -> 1 [] c = "2" -> 2 [] c = "3" -> 3
      [] c = "4" -> 4 [] c = "5" -> 5 [] c = "6" -> 6 [] c = "7" -> 7
      [] c = "8" -> 8 [] c = "9" -> 9

\* u32::checked_mul(10): None on overflow.
checked_mul10(x) ==
    LET lo10 == x.lo * 10
        hi10 == x.hi * 10 + lo10 \div LimbBase
    IN  IF hi10 >= LimbBase THEN None ELSE Some(U32(hi10, lo10 % LimbBase))

\* u32::checked_add(d) for a digit d: None on overflow.
checked_add(x, d) ==
    LET lo1 == x.lo + d
        hi1 == x.hi + lo1 \div LimbBase
    IN  IF hi1 >= LimbBase THEN None ELSE Some(U32(hi1, lo1 % LimbBase))

\* The digit loop: a character that is no digit is InvalidDigit, a product
\* or sum that leaves 32 bits is PosOverflow, whichever comes first.
RECURSIVE u32_digits(_, _, _)
u32_digits(digits, i, acc) ==
    IF i > Len(digits) THEN Ok(acc)
    ELSE IF digits[i] \notin Digits THEN Err(ParseIntError("InvalidDigit"))
    ELSE LET m == checked_mul10(acc)
         IN  IF m = None THEN Err(ParseIntError("PosOverflow"))
             ELSE LET a == checked_add(m.val, DigitVal(digits[i]))
                  IN  IF a = None THEN Err(ParseIntError("PosOverflow"))
                      ELSE u32_digits(digits, i + 1, a.val)

\* Parsing a year that stops at the first character that is no digit.
RECURSIVE DigitPrefix(_)
DigitPrefix(text) ==
    IF text = <<>> \/ Head(text) \notin Digits THEN <<>>
    ELSE <<Head(text)>> \o DigitPrefix(Tail(text))

u32_parse_lenient(text) ==
    IF text = <<>> THEN Err(ParseIntError("Empty"))
    ELSE u32_digits(DigitPrefix(text), 1, U32(0, 0))

\* year.parse::<u32>(): empty text is Empty; a lone sign is InvalidDigit; one
\* leading '+' is skipped; a leading '-' is left to fail as a digit.
u32_parse(text) ==
    IF text = <<>> THEN Err(ParseIntError("Empty"))
    ELSE IF text[1] \in {"+", "-"} /\ Len(text) = 1
         THEN Err(ParseIntError("InvalidDigit"))
    ELSE LET digits == IF text[1] = "+" THEN Tail(text) ELSE text
         IN  u32_digits(digits, 1, U32(0, 0))

----------------------------------------------------------------------------
(* str::parse::<f32>, called at line 87 *)

\* The parsed number is held as the decimal the text denotes,
\* (-1)^negative * digits * 10^exponent, or as an infinity or a NaN; the
\* rounding of that decimal to the nearest binary32 is not represented.
F32Finite(negative, digits, exponent) ==
    [class |-> "finite", negative |-> negative, digits |-> digits, exponent |-> exponent]
F32Inf(negative) == [class |-> "inf", negative |-> negative]
F32NaN(negative) == [class |-> "nan", negative |-> negative]

\* The exponent stops growing once it has reached this value.
ExpSat == 65536

\* The number of digits of text from position i on.
RECURSIVE DigitRun(_, _)
DigitRun(text, i) ==
    IF i > Len(text) \/ text[i] \notin Digits THEN 0
    ELSE 1 + DigitRun(text, i + 1)

RECURSIVE ExpValue(_, _, _, _)
ExpValue(text, i, n, acc) ==
    IF n = 0 THEN acc
    ELSE ExpValue(text, i + 1, n - 1,
                  IF acc < ExpSat THEN 10 * acc + DigitVal(text[i]) ELSE acc)

\* The exponent after 'e': an optional sign and at least one digit.
\* Gives the exponent and the position after it, or None.
parse_scientific(text, i) ==
    LET signed == i <= Len(text) /\ text[i] \in {"+", "-"}
        neg == signed /\ text[i] = "-"
        j == IF signed THEN i + 1 ELSE i
        n == DigitRun(text, j)
    IN  IF n = 0 THEN None
        ELSE LET e == ExpValue(text, j, n, 0)
             IN  Some([exp |-> IF neg THEN 0 - e ELSE e, next |-> j + n])

\* Digits, an optional '.' and digits, at least one digit in all, an optional
\* exponent, and nothing after it.
parse_number(text, negative) ==
    LET intLen == DigitRun(text, 1)
        dot == intLen + 1
        hasDot == dot <= Len(text) /\ text[dot] = "."
        fracLen == IF hasDot THEN DigitRun(text, dot + 1) ELSE 0
        afterMant == IF hasDot THEN dot + 1 + fracLen ELSE dot
        hasExp == afterMant <= Len(text) /\ text[afterMant] \in {"e", "E"}
        sci == IF hasExp THEN parse_scientific(text, afterMant + 1)
               ELSE Some([exp |-> 0, next |-> afterMant])
        mant == SubSeq(text, 1, intLen) \o SubSeq(text, dot + 1, dot + fracLen)
    IN  IF intLen + fracLen = 0 THEN None
        ELSE IF sci = None THEN None
        ELSE IF sci.val.next # Len(text) + 1 THEN None
        ELSE Some(F32Finite(negative, mant, sci.val.exp - fracLen))

ToLower(c) ==
    CASE c = "N" -> "n" [] c = "A" -> "a" [] c = "I" -> "i" [] c = "F" -> "f"
      [] c = "T" -> "t" [] c = "Y" -> "y" [] OTHER -> c

\* "nan", "inf" and "infinity", in either case of each letter.
parse_inf_nan(text, negative) ==
    LET low == [i \in 1..Len(text) |-> ToLower(text[i])]
    IN  IF low = <<"n", "a", "n">> THEN Some(F32NaN(negative))
        ELSE IF low = <<"i", "n", "f">> \/ low = <<"i", "n", "f", "i", "n", "i", "t", "y">>
             THEN Some(F32Inf(negative))
        ELSE None

\* A float parser that takes a lone sign or a lone point as zero.
f32_parse_lenient(text) ==
    IF text = <<>> THEN Err(ParseFloatError("Empty"))
    ELSE LET negative == text[1] = "-"
             body == IF text[1] \in {"+", "-"} THEN Tail(text) ELSE text
             num == parse_number(body, negative)
         IN  IF num # None THEN Ok(num.val)
             ELSE IF body \in {<<>>, <<".">>} THEN Ok(F32Finite(negative, <<"0">>, 0))
             ELSE Err(ParseFloatError("Invalid"))

\* temp.parse::<f32>(): empty text is Empty; anything the grammar does not
\* take is Invalid; no text overflows (a huge exponent gives an infinity).
f32_parse(text) ==
    IF text = <<>> THEN Err(ParseFloatError("Empty"))
    ELSE LET negative == text[1] = "-"
             body == IF text[1] \in {"+", "-"} THEN Tail(text) ELSE text
         IN  IF body = <<>> THEN Err(ParseFloatError("Invalid"))
             ELSE LET num == parse_number(body, negative)
                      special == parse_inf_nan(body, negative)
                  IN  IF num # None THEN Ok(num.val)
                      ELSE IF special # None THEN Ok(special.val)
                      ELSE Err(ParseFloatError("Invalid"))

----------------------------------------------------------------------------
(* impl From, Display and Error for ParseClimateError *)

From_ParseIntError(e) == ParseInt(e)

From_ParseFloatError(e) == ParseFloat(e)

\* Display of the two library errors, the "{}" of lines 42 and 43.
ParseIntError_fmt(e) ==
    CASE e.kind = "Empty" -> "cannot parse integer from empty string"
      [] e.kind = "InvalidDigit" -> "invalid digit found in string"
      [] e.kind = "PosOverflow" -> "number too large to fit in target type"
      [] e.kind = "NegOverflow" -> "number too small to fit in target type"
      [] e.kind = "Zero" -> "number would be zero for non-zero type"

ParseFloatError_fmt(e) ==
    CASE e.kind = "Empty" -> "cannot parse float from empty string"
      [] e.kind = "Invalid" -> "invalid float literal"

inner_fmt(e) ==
    IF e.type = "ParseIntError" THEN ParseIntError_fmt(e) ELSE ParseFloatError_fmt(e)

\* A Display that reports both numeric failures as a failure of the year.
fmt_year_only(e) ==
    CASE e.variant = "Empty" -> "empty input"
      [] e.variant = "BadLen" -> "incorrect number of fields"
      [] e.variant = "NoCity" -> "no city name"
      [] e.variant = "ParseInt" -> "error parsing year: " \o inner_fmt(e.inner)
      [] e.variant = "ParseFloat" -> "error parsing year: " \o inner_fmt(e.inner)

fmt(e) ==
    CASE e.variant = "Empty" -> "empty input"
      [] e.variant = "BadLen" -> "incorrect number of fields"
      [] e.variant = "NoCity" -> "no city name"
      [] e.variant = "ParseInt" -> "error parsing year: " \o inner_fmt(e.inner)
      [] e.variant = "ParseFloat" -> "error parsing temperature: " \o inner_fmt(e.inner)

\* A source() that forgets the float variant.
source_int_only(e) ==
    IF e.variant = "ParseInt" THEN Some(e.inner) ELSE None

source(e) ==
    CASE e.variant = "ParseInt" -> Some(e.inner)
      [] e.variant = "ParseFloat" -> Some(e.inner)
      [] OTHER -> None

----------------------------------------------------------------------------
(* impl FromStr for Climate *)

\* An emptiness test that takes a blank string for an empty one.
is_empty_blank(text) == \A i \in 1..Len(text) : text[i] = " "

is_empty(text) == Len(text) = 0

\* s.split(','): the pieces between the separators, empty pieces included,
\* one more than there are separators.
RECURSIVE split_from(_, _, _)
split_from(text, i, piece) ==
    IF i > Len(text) THEN <<piece>>
    ELSE IF text[i] = "," THEN <<piece>> \o split_from(text, i + 1, <<>>)
    ELSE split_from(text, i + 1, Append(piece, text[i]))

\* A split that trims the whitespace around each piece.
RECURSIVE TrimStart(_)
TrimStart(text) ==
    IF text # <<>> /\ Head(text) = " " THEN TrimStart(Tail(text)) ELSE text

RECURSIVE TrimEnd(_)
TrimEnd(text) ==
    IF text # <<>> /\ text[Len(text)] = " " THEN TrimEnd(SubSeq(text, 1, Len(text) - 1))
    ELSE text

split_trim(text) ==
    LET v == split_from(text, 1, <<>>)
    IN  [k \in 1..Len(v) |-> TrimEnd(TrimStart(v[k]))]

split(text) == split_from(text, 1, <<>>)

\* result.map_err(ParseClimateError::from) followed by `?`
map_err_int(r) == IF r.tag = "Err" THEN Err(From_ParseIntError(r.err)) ELSE r

map_err_float(r) == IF r.tag = "Err" THEN Err(From_ParseFloatError(r.err)) ELSE r

\* Lines 86 to 89 with the two parses in the other order.
parse_fields_temp_first(city, year, temp) ==
    LET t == map_err_float(f32_parse(temp))
        y == map_err_int(u32_parse(year))
    IN  IF t.tag = "Err" THEN t
        ELSE IF y.tag = "Err" THEN y
        ELSE Ok(Climate(city, y.val, t.val))

\* Lines 86 to 89: the year, then the temperature, then the record.
parse_fields(city, year, temp) ==
    LET y == map_err_int(u32_parse(year))
        t == map_err_float(f32_parse(temp))
    IN  IF y.tag = "Err" THEN y
        ELSE IF t.tag = "Err" THEN t
        ELSE Ok(Climate(city, y.val, t.val))

\* The match with the year parsed before the city is looked at.
match_fields_year_first(v) ==
    IF Len(v) # 3 THEN Err(BadLen)
    ELSE LET y == map_err_int(u32_parse(v[2]))
         IN  IF y.tag = "Err" THEN y
             ELSE IF v[1] # <<>> THEN parse_fields(v[1], v[2], v[3])
             ELSE Err(NoCity)

\* The match of lines 80 to 84 and what follows its first arm.
match_fields(v) ==
    IF Len(v) = 3 /\ v[1] # <<>> THEN parse_fields(v[1], v[2], v[3])
    ELSE IF Len(v) = 3 THEN Err(NoCity)
    ELSE Err(BadLen)

\* The parser with the city looked at before the fields are counted.
from_str_city_first(text) ==
    IF is_empty(text) THEN Err(Empty)
    ELSE LET v == split(text)
         IN  IF v[1] = <<>> THEN Err(NoCity)
             ELSE IF Len(v) # 3 THEN Err(BadLen)
             ELSE match_fields(v)

from_str(text) ==
    IF is_empty(text) THEN Err(Empty)
    ELSE LET v == split(text)
         IN  IF Len(v) # 3 THEN Err(BadLen)
             ELSE match_fields(v)

----------------------------------------------------------------------------
(* The callers: a test calling s.parse::<Climate>(), to_string() and       *)
(* source() on one input, and main.                                        *)

\* println!("{:?}", v): the line is held as the value it renders.
println_debug(v) == [debug |-> v]

\* A test is entered with its input, main with none.
InitWith(inputs) ==
    /\ caller \in {"test", "main"}
    /\ s \in IF caller = "test" THEN inputs ELSE {<<>>}
    /\ pc = IF caller = "test" THEN "parse" ELSE "l94"
    /\ res = Uncalled
    /\ msg = Uncalled
    /\ src = Uncalled
    /\ stdout = <<>>
    /\ ret = Uncalled

Init == InitWith(Inputs)

\* let res = s.parse::<Climate>();
FromStr ==
    /\ caller = "test"
    /\ pc = "parse"
    /\ res' = from_str(s)
    /\ pc' = "parsed"
    /\ UNCHANGED <<caller, s, msg, src, stdout, ret>>

\* res.unwrap_err().to_string()
ErrToString ==
    /\ caller = "test"
    /\ pc = "parsed"
    /\ res.tag = "Err"
    /\ msg = Uncalled
    /\ msg' = Some(fmt(res.err))
    /\ UNCHANGED <<caller, s, res, src, pc, stdout, ret>>

\* err.source()
ErrSource ==
    /\ caller = "test"
    /\ pc = "parsed"
    /\ res.tag = "Err"
    /\ src = Uncalled
    /\ src' = source(res.err)
    /\ UNCHANGED <<caller, s, res, msg, pc, stdout, ret>>

\* The two parses of main, of its two literals.
ParseL94 == from_str(Lit_HongKong)

ParseL95 == from_str(Lit_Empty)

\* One statement of main: println!("{:?}", text.parse::<Climate>()?), with r
\* the result of the parse: it returns the error, boxed, or prints the record
\* and goes on to `next`.
MainStatement(text, r, next) ==
    /\ s' = text
    /\ res' = r
    /\ IF r.tag = "Err"
       THEN /\ ret' = Err(r.err)
            /\ pc' = "returned"
            /\ UNCHANGED stdout
       ELSE /\ stdout' = Append(stdout, println_debug(r.val))
            /\ IF next = "l96"
               THEN ret' = Ok("unit") /\ pc' = "returned"
               ELSE ret' = ret /\ pc' = next
    /\ UNCHANGED <<caller, msg, src>>

\* Line 94.
MainL94 ==
    /\ caller = "main"
    /\ pc = "l94"
    /\ MainStatement(Lit_HongKong, ParseL94, "l95")

\* A second statement that drops the failure and ends with Ok(()).
MainL95_swallow ==
    /\ caller = "main"
    /\ pc = "l95"
    /\ s' = Lit_Empty
    /\ res' = ParseL95
    /\ ret' = Ok("unit")
    /\ pc' = "returned"
    /\ UNCHANGED <<caller, msg, src, stdout>>

\* Line 95, and line 96 after it when the parse succeeds.
MainL95 ==
    /\ caller = "main"
    /\ pc = "l95"
    /\ MainStatement(Lit_Empty, ParseL95, "l96")

Next ==
    \/ FromStr
    \/ ErrToString
    \/ ErrSource
    \/ MainL94
    \/ MainL95

Spec == Init /\ [][Next]_vars

\* main is a sequential program: a statement it has reached is executed.
\* The tests run on the literals of the source and on EdgeInputs.
MainSpec ==
    /\ InitWith(TestLiterals \cup EdgeInputs)
    /\ [][Next]_vars
    /\ WF_vars(MainL94)
    /\ WF_vars(MainL95)

----------------------------------------------------------------------------
(* The vocabulary of the claims, stated on the input text alone: fields    *)
(* by the positions of the commas, numbers by their grammar.               *)

Parsed == res.tag \in {"Ok", "Err"}

IsErr(variant) == res.tag = "Err" /\ res.err.variant = variant

CommaAt(text) == {i \in 1..Len(text) : text[i] = ","}

NumFields(text) == Cardinality(CommaAt(text)) + 1

MinOf(S) == CHOOSE x \in S : \A y \in S : x <= y

MaxOf(S) == CHOOSE x \in S : \A y \in S : y <= x

FirstField(text) ==
    IF CommaAt(text) = {} THEN text ELSE SubSeq(text, 1, MinOf(CommaAt(text)) - 1)

\* The second and third of exactly three fields.
SecondField(text) ==
    SubSeq(text, MinOf(CommaAt(text)) + 1, MaxOf(CommaAt(text)) - 1)

ThirdField(text) == SubSeq(text, MaxOf(CommaAt(text)) + 1, Len(text))

ThreeFieldsWithCity(text) == NumFields(text) = 3 /\ FirstField(text) # <<>>

AllDigits(text) == \A i \in 1..Len(text) : text[i] \in Digits

Unsigned(text, signs) ==
    IF text # <<>> /\ text[1] \in signs THEN Tail(text) ELSE text

RECURSIVE StripZeros(_)
StripZeros(text) ==
    IF text # <<>> /\ Head(text) = "0" THEN StripZeros(Tail(text)) ELSE text

\* The decimal digits of 2^32 - 1.
U32MaxDigits == <<"4", "2", "9", "4", "9", "6", "7", "2", "9", "5">>

\* a <= b for two digit strings of one length.
DigitsLE(a, b) ==
    \/ a = b
    \/ \E i \in 1..Len(a) :
          /\ DigitVal(a[i]) < DigitVal(b[i])
          /\ \A j \in 1..(i - 1) : a[j] = b[j]

FitsU32(digits) ==
    LET z == StripZeros(digits)
    IN  \/ Len(z) < Len(U32MaxDigits)
        \/ Len(z) = Len(U32MaxDigits) /\ DigitsLE(z, U32MaxDigits)

\* A valid unsigned 32-bit integer: an optional '+', at least one digit,
\* only digits, and a value of at most 2^32 - 1.
ValidU32(text) ==
    LET d == Unsigned(text, {"+"})
    IN  d # <<>> /\ AllDigits(d) /\ FitsU32(d)

RECURSIVE SmallInt(_)
SmallInt(digits) ==
    IF digits = <<>> THEN 0
    ELSE 10 * SmallInt(SubSeq(digits, 1, Len(digits) - 1)) + DigitVal(digits[Len(digits)])

\* The value of a valid u32 text, from its leading and its last five digits:
\* q * 100000 + r, as limbs.
NumericValue(text) ==
    LET z == StripZeros(Unsigned(text, {"+"}))
        cut == IF Len(z) > 5 THEN Len(z) - 5 ELSE 0
        q == SmallInt(SubSeq(z, 1, cut))
        r == SmallInt(SubSeq(z, cut + 1, Len(z)))
        low == q * (100000 - LimbBase) + r
    IN  U32(q + low \div LimbBase, low % LimbBase)

IsMantissa(text) ==
    /\ \A i \in 1..Len(text) : text[i] \in Digits \cup {"."}
    /\ Cardinality({i \in 1..Len(text) : text[i] = "."}) <= 1
    /\ \E i \in 1..Len(text) : text[i] \in Digits

IsExponent(text) ==
    \/ text = <<>>
    \/ /\ text[1] \in {"e", "E"}
       /\ LET d == Unsigned(Tail(text), {"+", "-"})
          IN  d # <<>> /\ AllDigits(d)

IsNumber(text) ==
    \E k \in 0..Len(text) :
        IsMantissa(SubSeq(text, 1, k)) /\ IsExponent(SubSeq(text, k + 1, Len(text)))

Letters(word) ==
    CASE word = "nan" -> <<{"n", "N"}, {"a", "A"}, {"n", "N"}>>
      [] word = "inf" -> <<{"i", "I"}, {"n", "N"}, {"f", "F"}>>
      [] word = "infinity" ->
            <<{"i", "I"}, {"n", "N"}, {"f", "F"}, {"i", "I"},
              {"n", "N"}, {"i", "I"}, {"t", "T"}, {"y", "Y"}>>

IsWord(text, word) ==
    /\ Len(text) = Len(Letters(word))
    /\ \A i \in 1..Len(text) : text[i] \in Letters(word)[i]

\* A valid fractional number: an optional sign, then digits with at most one
\* point and an optional exponent, or one of nan, inf, infinity.
ValidF32(text) ==
    /\ text # <<>>
    /\ LET b == Unsigned(text, {"+", "-"})
       IN  IsNumber(b) \/ IsWord(b, "nan") \/ IsWord(b, "inf") \/ IsWord(b, "infinity")

IsDigit(c) == c \in Digits

\* The decimal a valid fractional text denotes; the exponent is read when it
\* has at most five digits.
DecimalValue(text) ==
    LET neg == text[1] = "-"
        b == Unsigned(text, {"+", "-"})
        es == {i \in 1..Len(b) : b[i] \in {"e", "E"}}
        m == IF es = {} THEN b ELSE SubSeq(b, 1, MinOf(es) - 1)
        x == IF es = {} THEN <<>> ELSE SubSeq(b, MinOf(es) + 1, Len(b))
        dots == {i \in 1..Len(m) : m[i] = "."}
        fracLen == IF dots = {} THEN 0 ELSE Len(m) - MinOf(dots)
        xd == Unsigned(x, {"+", "-"})
        e == IF x # <<>> /\ x[1] = "-" THEN 0 - SmallInt(xd) ELSE SmallInt(xd)
    IN  IF IsWord(b, "nan") THEN F32NaN(neg)
        ELSE IF IsWord(b, "inf") \/ IsWord(b, "infinity") THEN F32Inf(neg)
        ELSE F32Finite(neg, SelectSeq(m, IsDigit), e - fracLen)

ShortExponent(text) ==
    \A i \in 1..Len(text) :
        text[i] \in {"e", "E"} => Len(Unsigned(SubSeq(text, i + 1, Len(text)), {"+", "-"})) <= 5

----------------------------------------------------------------------------
(* Claims *)

\* C1: from_str returns Err(Empty) exactly when the input has zero length:
\* every empty input gives Empty, no non-empty input does.
C1_EmptyIffZeroLength ==
    Parsed => (res = Err(Empty) <=> Len(s) = 0)

C1_Witness == caller = "test" /\ Parsed /\ Len(s) = 0 /\ res = Err(Empty)

\* C2: a non-empty input that does not split into exactly three fields gives
\* BadLen, also when its first field is empty.
C2_WrongFieldCount ==
    (Parsed /\ Len(s) > 0 /\ NumFields(s) # 3) => res = Err(BadLen)

C2_Witness ==
    /\ Parsed /\ Len(s) > 0 /\ NumFields(s) > 3
    /\ FirstField(s) = <<>>
    /\ res = Err(BadLen)

\* C3: exactly three fields with an empty first field give NoCity, whatever
\* the other two fields hold.
C3_NoCity ==
    (Parsed /\ NumFields(s) = 3 /\ FirstField(s) = <<>>) => res = Err(NoCity)

C3_Witness ==
    /\ Parsed /\ NumFields(s) = 3 /\ FirstField(s) = <<>>
    /\ ~ValidU32(SecondField(s)) /\ ~ValidF32(ThirdField(s))
    /\ res = Err(NoCity)

\* C4: three fields, a city, and a second field that is no valid u32 give
\* ParseInt, whatever the third field holds.
C4_YearBeforeTemp ==
    (Parsed /\ ThreeFieldsWithCity(s) /\ ~ValidU32(SecondField(s))) => IsErr("ParseInt")

C4_Witness ==
    /\ Parsed /\ ThreeFieldsWithCity(s)
    /\ ~ValidU32(SecondField(s)) /\ ~ValidF32(ThirdField(s))
    /\ IsErr("ParseInt")

\* C5 as stated: three fields, a city, and a second field holding any
\* character that is no decimal digit give ParseInt.
C5_AnyNonDigitRejected ==
    (Parsed /\ ThreeFieldsWithCity(s) /\ ~AllDigits(SecondField(s))) => IsErr("ParseInt")

\* One leading '+' followed by digits only.
PlusThenDigits(text) ==
    Len(text) >= 2 /\ text[1] = "+" /\ AllDigits(Tail(text))

\* C5 as amended: three fields, a city, and a second field holding a
\* character that is no decimal digit give ParseInt, unless the field is one
\* leading '+' followed by one or more digits.
C5_NonDigitRejectedButPlus ==
    ( /\ Parsed /\ ThreeFieldsWithCity(s)
      /\ ~AllDigits(SecondField(s))
      /\ ~PlusThenDigits(SecondField(s)) ) => IsErr("ParseInt")

C5_Witness ==
    /\ Parsed /\ ThreeFieldsWithCity(s)
    /\ Len(SecondField(s)) >= 2 /\ SecondField(s)[1] = "+"
    /\ ~PlusThenDigits(SecondField(s))
    /\ IsErr("ParseInt")

\* C6: ParseFloat is returned exactly for three fields, a city, a valid u32
\* and a third field that is no valid fractional number.
C6_ParseFloat ==
    Parsed =>
        ( IsErr("ParseFloat") <=>
            /\ ThreeFieldsWithCity(s)
            /\ ValidU32(SecondField(s))
            /\ ~ValidF32(ThirdField(s)) )

C6_Witness ==
    /\ Parsed /\ ThreeFieldsWithCity(s) /\ ValidU32(SecondField(s))
    /\ ThirdField(s) # <<>> /\ ~ValidF32(ThirdField(s))
    /\ IsErr("ParseFloat")

\* C7: a record is returned exactly for three fields, a city, a valid u32 and
\* a valid fractional number; its city is the first field unchanged, its year
\* the value of the second field, its temp the value of the third.
C7_Record ==
    Parsed =>
        /\ res.tag = "Ok" <=>
              /\ ThreeFieldsWithCity(s)
              /\ ValidU32(SecondField(s))
              /\ ValidF32(ThirdField(s))
        /\ res.tag = "Ok" =>
              /\ res.val.city = FirstField(s)
              /\ res.val.city # <<>>
              /\ res.val.year = NumericValue(SecondField(s))
              /\ ShortExponent(ThirdField(s)) =>
                    res.val.temp = DecimalValue(ThirdField(s))

C7_Witness ==
    /\ Parsed /\ res.tag = "Ok"
    /\ res.val.city[1] = " "
    /\ res.val.year = U32(0, 1)

\* The text the error reporting contract gives each variant.
ContractText(e) ==
    IF e = Empty THEN "empty input"
    ELSE IF e = BadLen THEN "incorrect number of fields"
    ELSE IF e = NoCity THEN "no city name"
    ELSE IF e.variant = "ParseInt" THEN "error parsing year: " \o ParseIntError_fmt(e.inner)
    ELSE "error parsing temperature: " \o ParseFloatError_fmt(e.inner)

\* C8: an error renders to the text of its variant, and no error of another
\* variant renders to the same text.
C8_Messages ==
    msg.tag = "Some" =>
        /\ msg.val = ContractText(res.err)
        /\ \A e \in AllErrors : e.variant # res.err.variant => fmt(e) # msg.val

C8_Witness == msg.tag = "Some" /\ IsErr("ParseFloat")

\* C9: source() of a returned ParseInt or ParseFloat is the error the numeric
\* parser gave for the failing field; of the other variants it is None.
C9_Source ==
    src # Uncalled =>
        IF IsErr("ParseInt") THEN src = Some(u32_parse(SecondField(s)).err)
        ELSE IF IsErr("ParseFloat") THEN src = Some(f32_parse(ThirdField(s)).err)
        ELSE src = None

C9_Witness ==
    /\ src.tag = "Some" /\ IsErr("ParseFloat")
    /\ src.val = ParseFloatError("Invalid")

\* The record of main's first literal.
HongKong1999 ==
    Climate(<<"H", "o", "n", "g", " ", "K", "o", "n", "g">>, U32(0, 1999),
            F32Finite(FALSE, <<"2", "5", "7">>, 0 - 1))

C10_Safety ==
    caller = "main" =>
        /\ Len(stdout) <= 1
        /\ ret # Ok("unit")
        /\ pc \in {"l94", "l95", "returned"}
        /\ pc = "l94" => stdout = <<>> /\ ret = Uncalled
        /\ pc = "l95" => stdout = <<println_debug(HongKong1999)>> /\ ret = Uncalled
        /\ pc = "returned" =>
              stdout = <<println_debug(HongKong1999)>> /\ ret = Err(Empty)

\* C10: in every run main prints the record of its first literal and then
\* returns the Empty of its second; it prints no second line and never
\* returns Ok(()).
C10_MainPropagates ==
    /\ []C10_Safety
    /\ (caller = "main") ~> (pc = "returned" /\ ret = Err(Empty) /\ Len(stdout) = 1)

C10_Witness == caller = "main" /\ pc = "returned" /\ ret = Err(Empty)

====
